---------------------------- MODULE Spec2Model ----------------------------
(***************************************************************************)
(* Model of the row-encoding engine of the storage crate:                  *)
(*   src/storage/src/db_value.rs  DbHeap and the DbValue codecs            *)
(*   src/storage/src/lib.rs       DbType, Table::row_length, DBUInt64      *)
(*                                                                         *)
(* Unsigned integers of the program are kept at their width.  A u64 is a   *)
(* sequence of four 16-bit words and a u32 a sequence of two, the most     *)
(* significant word first, so that 64-bit wrap-around, shifts and masks    *)
(* are computed and not assumed.  A byte is a number in 0..255, a Rust     *)
(* String a sequence of bytes that is valid UTF-8.                         *)
(***************************************************************************)
EXTENDS Integers, Sequences, FiniteSets, TLC

VARIABLES
    overflow_checks,  \* build profile: TRUE = debug (checked arithmetic)
    heap,             \* DbHeap.buf
    log,              \* every append_data call so far: <<offset, data>>
    slots,            \* every external-string slot written so far: <<slot, s>>
    buf,              \* the row slice handed to the last codec call
    adj,              \* the memory that lies right after that slice
    val,              \* the value the last call was made on (self)
    out,              \* the value a decode filled (new_val of the tests)
    wrote,            \* how the last encode into buf ended ("none": no encode)
    op,               \* the last operation
    status,           \* how it ended: "ok", "err", "panic", "crash"
    ret,              \* what it returned
    schema,           \* Table.schema: a sequence of DbType
    row_len           \* the last Table::row_length() result

vars == <<overflow_checks, heap, log, slots, buf, adj, val, out, wrote, op, status,
          ret, schema, row_len>>

(***************************************************************************)
(* Bounds of the model.                                                    *)
(***************************************************************************)
MaxAppends == 2      \* append_data calls in one behaviour
LongLen == 256       \* byte length of the long test string (> 255)
Slack == 1           \* how far a slice may exceed the codec's size
AdjLen == 2          \* bytes of adjacent memory that are modelled

(***************************************************************************)
(* Program constants.                                                      *)
(***************************************************************************)
POINTER_SIZE == 8
ByteMod == 256
WordMod == ByteMod * ByteMod
Byte == 0..(ByteMod - 1)

Zeros(n) == [i \in 1..n |-> 0]
Rep(b, n) == [i \in 1..n |-> b]

(***************************************************************************)
(* Fixed-width unsigned arithmetic.                                        *)
(***************************************************************************)
\* the j-th 16-bit word of v, counted from the least significant (j = 0)
WordOf(v, j) == v[Len(v) - j]

\* (v >> 8k) & 0xff
ByteOf(v, k) ==
    LET w == WordOf(v, k \div 2)
    IN  IF k % 2 = 0 THEN w % ByteMod ELSE w \div ByteMod

\* a small usize as an unsigned integer of `words` 16-bit words (n < 2^31)
NatToU(n, words) ==
    [i \in 1..words |->
        IF i = words THEN n % WordMod
        ELSE IF i = words - 1 THEN n \div WordMod
        ELSE 0]

NatToU64(n) == NatToU(n, 4)

\* whether the unsigned integer fits the model's naturals, and its value
UFits(v) ==
    /\ \A i \in 1..Len(v) : i < Len(v) - 1 => v[i] = 0
    /\ Len(v) > 1 => v[Len(v) - 1] < WordMod \div 2
UToNat(v) ==
    IF Len(v) = 1 THEN v[1] ELSE v[Len(v) - 1] * WordMod + v[Len(v)]

\* a < b, for two unsigned integers of the same width
RECURSIVE ULessFrom(_, _, _)
ULessFrom(a, b, i) ==
    IF i > Len(a) THEN FALSE
    ELSE IF a[i] # b[i] THEN a[i] < b[i]
    ELSE ULessFrom(a, b, i + 1)
ULess(a, b) == ULessFrom(a, b, 1)

\* the carry into word j of a + b
RECURSIVE CarryInto(_, _, _)
CarryInto(a, b, j) ==
    IF j = 0 THEN 0
    ELSE (WordOf(a, j - 1) + WordOf(b, j - 1) + CarryInto(a, b, j - 1)) \div WordMod

\* usize::wrapping_add, and whether a + b overflows the width
WrappingAdd(a, b) ==
    [i \in 1..Len(a) |->
        LET j == Len(a) - i
        IN  (WordOf(a, j) + WordOf(b, j) + CarryInto(a, b, j)) % WordMod]
AddOverflows(a, b) == CarryInto(a, b, Len(a)) = 1

(***************************************************************************)
(* byteorder::LittleEndian, as db_value.rs uses it.  Both directions       *)
(* assert that the slice holds at least the integer's bytes and touch      *)
(* only the first `nbytes` bytes of it.                                    *)
(***************************************************************************)
LittleEndianBytes(v, nbytes) == [k \in 1..nbytes |-> ByteOf(v, k - 1)]

LittleEndianValue(b, nbytes) ==
    [i \in 1..(nbytes \div 2) |->
        LET j == (nbytes \div 2) - i
        IN  b[2 * j + 1] + ByteMod * b[2 * j + 2]]

LittleEndian_write(b, v, nbytes) ==
    IF nbytes <= Len(b)
    THEN [status |-> "ok",
          buf |-> [k \in 1..Len(b) |->
                      IF k <= nbytes THEN LittleEndianBytes(v, nbytes)[k] ELSE b[k]]]
    ELSE [status |-> "panic", buf |-> b]

LittleEndian_read(b, nbytes) ==
    IF nbytes <= Len(b)
    THEN [status |-> "ok", v |-> LittleEndianValue(b, nbytes)]
    ELSE [status |-> "panic", v |-> <<>>]

(***************************************************************************)
(* String::from_utf8_lossy: every well-formed UTF-8 sequence is kept,      *)
(* every maximal ill-formed prefix is replaced by U+FFFD (EF BF BD).       *)
(***************************************************************************)
Replacement == <<239, 191, 189>>

InRange(b, lo, hi) == lo <= b /\ b <= hi
IsCont(s, i) == i <= Len(s) /\ InRange(s[i], 128, 191)

\* UTF8_CHAR_WIDTH of the lead byte
Utf8Width(b) ==
    IF b < 128 THEN 1
    ELSE IF InRange(b, 194, 223) THEN 2
    ELSE IF InRange(b, 224, 239) THEN 3
    ELSE IF InRange(b, 240, 244) THEN 4
    ELSE 0

\* whether the byte after lead byte s[i] is one the lead byte allows
SecondOk(s, i) ==
    /\ i + 1 <= Len(s)
    /\ LET b == s[i] n == s[i + 1]
       IN  \/ InRange(b, 194, 223) /\ InRange(n, 128, 191)
           \/ b = 224 /\ InRange(n, 160, 191)
           \/ InRange(b, 225, 236) /\ InRange(n, 128, 191)
           \/ b = 237 /\ InRange(n, 128, 159)
           \/ InRange(b, 238, 239) /\ InRange(n, 128, 191)
           \/ b = 240 /\ InRange(n, 144, 191)
           \/ InRange(b, 241, 243) /\ InRange(n, 128, 191)
           \/ b = 244 /\ InRange(n, 128, 143)

\* the chunk that starts at s[i]: how many bytes it takes and whether they
\* are a well-formed sequence
Utf8Chunk(s, i) ==
    LET w == Utf8Width(s[i])
    IN  IF w = 1 THEN [n |-> 1, valid |-> TRUE]
        ELSE IF w = 0 \/ ~SecondOk(s, i) THEN [n |-> 1, valid |-> FALSE]
        ELSE IF w = 2 THEN [n |-> 2, valid |-> TRUE]
        ELSE IF ~IsCont(s, i + 2) THEN [n |-> 2, valid |-> FALSE]
        ELSE IF w = 3 THEN [n |-> 3, valid |-> TRUE]
        ELSE IF ~IsCont(s, i + 3) THEN [n |-> 3, valid |-> FALSE]
        ELSE [n |-> 4, valid |-> TRUE]

\* the next `n` chunks from s[i] on, decoded, and where the chunk after
\* them starts; the chunks are taken left to right, the run of n being
\* split in halves only to keep the evaluation shallow
RECURSIVE Utf8LossyChunks(_, _, _)
Utf8LossyChunks(s, i, n) ==
    IF i > Len(s) \/ n = 0 THEN [text |-> <<>>, next |-> i]
    ELSE IF n = 1
    THEN LET c == Utf8Chunk(s, i)
         IN  [text |-> IF c.valid THEN SubSeq(s, i, i + c.n - 1) ELSE Replacement,
              next |-> i + c.n]
    ELSE LET a == Utf8LossyChunks(s, i, n \div 2)
             b == Utf8LossyChunks(s, a.next, n - (n \div 2))
         IN  [text |-> a.text \o b.text, next |-> b.next]

from_utf8_lossy(s) == Utf8LossyChunks(s, 1, Len(s)).text

(***************************************************************************)
(* DbHeap                                                                  *)
(***************************************************************************)
\* DbHeap::append_data: Vec::append moves every byte of `data` to the end
\* of buf and leaves `data` empty; the length before the call is returned.
append_data_front(buf_, data) ==
    [buf |-> data \o buf_, data |-> <<>>, ret |-> Len(buf_)]

append_data_newlen(buf_, data) ==
    [buf |-> buf_ \o data, data |-> <<>>, ret |-> Len(buf_ \o data)]

append_data(buf_, data) ==
    [buf |-> buf_ \o data, data |-> <<>>, ret |-> Len(buf_)]

\* DbHeap::get_slice: &self.buf[offset..(offset+len)].  offset + len is a
\* usize addition: it panics under overflow checks and wraps without them;
\* the range index then panics when it starts after its end or ends after
\* the buffer's length.
get_slice_clamped(buf_, offset, len, checks) ==
    LET end == WrappingAdd(offset, len)
        stop == IF ~AddOverflows(offset, len) /\ UFits(end) /\ UToNat(end) <= Len(buf_)
                THEN UToNat(end) ELSE Len(buf_)
    IN  IF UFits(offset) /\ UToNat(offset) <= Len(buf_)
        THEN [status |-> "ok", data |-> SubSeq(buf_, UToNat(offset) + 1, stop)]
        ELSE [status |-> "panic", data |-> <<>>]

get_slice(buf_, offset, len, checks) ==
    IF checks /\ AddOverflows(offset, len)
    THEN [status |-> "panic", data |-> <<>>]
    ELSE LET end == WrappingAdd(offset, len)
         IN  IF ULess(end, offset)
             THEN [status |-> "panic", data |-> <<>>]
             ELSE IF ~(UFits(end) /\ UToNat(end) <= Len(buf_))
             THEN [status |-> "panic", data |-> <<>>]
             ELSE [status |-> "ok",
                   data |-> SubSeq(buf_, UToNat(offset) + 1, UToNat(end))]

(***************************************************************************)
(* DBExternalString (64-bit target)                                        *)
(***************************************************************************)
\* a value of a codec type is kept as the pair of its type and its field .0
ExternalString(s) == <<"DBExternalString", s>>
TypeOf(value) == value[1]
Inner(value) == value[2]

\* an append_data call, and a slot an encode wrote with the string encoded
Call(offset, data) == <<offset, data>>
OffsetOf(call) == call[1]
DataOf(call) == call[2]
Slot(bytes, s) == <<bytes, s>>
BytesOf(slot) == slot[1]
StringOf(slot) == slot[2]

\* DBExternalString::size: size_of::<usize>() + self.0.len()
DBExternalString_size(self) == POINTER_SIZE + Len(self)

DBExternalString_write_to_buffer_u8len(self, b, h) ==
    LET size_buf == LittleEndianBytes(NatToU64(Len(self) % ByteMod), POINTER_SIZE)
        len_prefixed_string == size_buf \o self
        a == append_data(h, len_prefixed_string)
        w == LittleEndian_write(b, NatToU64(a.ret), POINTER_SIZE)
    IN  [status |-> w.status, buf |-> w.buf, heap |-> a.buf,
         offset |-> a.ret, record |-> len_prefixed_string]

\* DBExternalString::write_to_buffer: the length-prefixed record goes to
\* the heap first, then the offset is written to the row slice; the write
\* of the offset panics on a slice shorter than 8 bytes, after the append.
DBExternalString_write_to_buffer(self, b, h) ==
    LET size_buf == LittleEndianBytes(NatToU64(Len(self)), POINTER_SIZE)
        len_prefixed_string == size_buf \o self
        a == append_data(h, len_prefixed_string)
        w == LittleEndian_write(b, NatToU64(a.ret), POINTER_SIZE)
    IN  [status |-> w.status, buf |-> w.buf, heap |-> a.buf,
         offset |-> a.ret, record |-> len_prefixed_string]

\* DBExternalString::read_from_buffer
DBExternalString_read_from_buffer(self, b, h, checks) ==
    LET failed == [status |-> "panic", self |-> self]
        r == LittleEndian_read(b, POINTER_SIZE)
    IN  IF r.status # "ok" THEN failed
        ELSE IF checks /\ AddOverflows(r.v, NatToU64(POINTER_SIZE)) THEN failed
        ELSE LET offset == r.v
                 data_start_offset == WrappingAdd(offset, NatToU64(POINTER_SIZE))
                 g1 == get_slice(h, offset, NatToU64(POINTER_SIZE), checks)
             IN  IF g1.status # "ok" THEN failed
                 ELSE LET size == LittleEndianValue(g1.data, POINTER_SIZE)
                          g2 == get_slice(h, data_start_offset, size, checks)
                      IN  IF g2.status # "ok" THEN failed
                          ELSE [status |-> "ok", self |-> from_utf8_lossy(g2.data)]

(***************************************************************************)
(* The heap and the external strings stored in it.                         *)
(***************************************************************************)
U64Max == [i \in 1..4 |-> WordMod - 1]

\* the strings of tests::external_string_serialize, cut to one of each
\* kind, and one longer than the inline format allows
Strings ==
    { <<>>, <<97, 226, 136, 158, 240, 159, 140, 174>>, Rep(97, LongLen) }

\* raw payloads; two of them read as a length field that points past the
\* end of any heap of the model
RawPayloads ==
    { <<>>, <<5, 0, 0, 0, 0, 0, 0, 0>>, Rep(255, POINTER_SIZE) }

SliceOffsets == { NatToU64(0), NatToU64(1), NatToU64(Len(heap)), U64Max }
SliceLens ==
    { NatToU64(0), NatToU64(POINTER_SIZE), NatToU64(Len(heap)), U64Max }

\* slot bytes handed to a decode: the slots written so far, and offsets
\* at, near and far past the end of the heap
ProbeOffsets ==
    { NatToU64(0), NatToU64(Len(heap)), U64Max,
      NatToU64(IF Len(heap) >= POINTER_SIZE THEN Len(heap) - POINTER_SIZE + 1 ELSE 1) }
SlotInputs ==
    { BytesOf(slots[i]) : i \in 1..Len(slots) }
        \cup { LittleEndianBytes(o, POINTER_SIZE) : o \in ProbeOffsets }
        \cup { Zeros(POINTER_SIZE - 1) }

\* what every call of the harness starts from: a zeroed row slice and
\* fresh values, as each iteration of the tests makes them
FreshSlice == Zeros(POINTER_SIZE)

InitHeap ==
    /\ overflow_checks \in BOOLEAN
    /\ heap = <<>>
    /\ log = <<>>
    /\ slots = <<>>
    /\ buf = FreshSlice
    /\ adj = Zeros(AdjLen)
    /\ val = ExternalString(<<>>)
    /\ out = ExternalString(<<>>)
    /\ wrote = "none"
    /\ op = "new"
    /\ status = "ok"
    /\ ret = <<>>
    /\ schema = <<>>
    /\ row_len = 0

\* heap.append_data(&mut data)
AppendData(data) ==
    /\ Len(log) < MaxAppends
    /\ LET a == append_data(heap, data)
       IN  /\ heap' = a.buf
           /\ log' = Append(log, Call(a.ret, data))
           /\ ret' = <<a.ret, Len(a.data)>>
    /\ op' = "append_data"
    /\ status' = "ok"
    /\ wrote' = "none"
    /\ buf' = FreshSlice
    /\ val' = ExternalString(<<>>)
    /\ out' = ExternalString(<<>>)
    /\ UNCHANGED <<overflow_checks, slots, adj, schema, row_len>>

\* heap.get_slice(offset, len)
GetSlice(offset, len) ==
    /\ LET g == get_slice(heap, offset, len, overflow_checks)
       IN  /\ status' = g.status
           /\ ret' = <<offset, len, g.data>>
    /\ op' = "get_slice"
    /\ wrote' = "none"
    /\ buf' = FreshSlice
    /\ val' = ExternalString(<<>>)
    /\ out' = ExternalString(<<>>)
    /\ UNCHANGED <<overflow_checks, heap, log, slots, adj, schema, row_len>>

\* let mut buf = [0u8; 8]; DBExternalString(s).write_to_buffer(&mut buf, &mut heap)
ExtWrite(s) ==
    /\ Len(log) < MaxAppends
    /\ LET w == DBExternalString_write_to_buffer(s, FreshSlice, heap)
       IN  /\ heap' = w.heap
           /\ log' = Append(log, Call(w.offset, w.record))
           /\ buf' = w.buf
           /\ status' = w.status
           /\ wrote' = w.status
           /\ ret' = <<w.offset>>
           /\ slots' = IF w.status = "ok"
                       THEN Append(slots, Slot(w.buf, s))
                       ELSE slots
    /\ val' = ExternalString(s)
    /\ out' = ExternalString(<<>>)
    /\ op' = "write_to_buffer"
    /\ UNCHANGED <<overflow_checks, adj, schema, row_len>>

\* let mut new_val = DBExternalString::new(); new_val.read_from_buffer(&b, &heap)
ExtRead(b) ==
    /\ LET r == DBExternalString_read_from_buffer(<<>>, b, heap, overflow_checks)
       IN  /\ status' = r.status
           /\ out' = ExternalString(r.self)
    /\ buf' = b
    /\ val' = ExternalString(<<>>)
    /\ wrote' = "none"
    /\ op' = "read_from_buffer"
    /\ ret' = <<>>
    /\ UNCHANGED <<overflow_checks, heap, log, slots, adj, schema, row_len>>

NextHeap ==
    \/ \E data \in RawPayloads : AppendData(data)
    \/ \E offset \in SliceOffsets, len \in SliceLens : GetSlice(offset, len)
    \/ \E s \in Strings : ExtWrite(s)
    \/ \E b \in SlotInputs : ExtRead(b)

SpecHeap == InitHeap /\ [][NextHeap]_vars

(***************************************************************************)
(* Claims about the heap and the external strings (SpecHeap).              *)
(***************************************************************************)

\* C1 (heap offset stability): in every state, for every append_data call
\* made so far, get_slice(the offset it returned, the length of its
\* payload) succeeds and returns exactly the bytes of that payload.
C1_HeapOffsetStability ==
    \A i \in 1..Len(log) :
        LET g == get_slice(heap, NatToU64(OffsetOf(log[i])),
                           NatToU64(Len(DataOf(log[i]))), overflow_checks)
        IN  g.status = "ok" /\ g.data = DataOf(log[i])

\* two non-empty payloads were appended, the second after the first
C1_Witness ==
    /\ Len(log) >= 2
    /\ DataOf(log[1]) # <<>>
    /\ DataOf(log[2]) # <<>>
    /\ DataOf(log[2]) # DataOf(log[1])

\* C2 (append_data): every call of append_data, made directly or by an
\* external-string encode, succeeds, returns the heap's length as it was
\* before the call, and leaves the heap's length at the returned offset
\* plus the number of bytes appended.
C2_AppendReturnsPreLength ==
    [][Len(log') = Len(log) + 1 =>
          LET call == log'[Len(log')]
          IN  /\ OffsetOf(call) = Len(heap)
              /\ Len(heap') = OffsetOf(call) + Len(DataOf(call))
              /\ (op' = "append_data" => status' = "ok" /\ ret'[1] = Len(heap))]_vars

\* a non-empty payload was appended to a non-empty heap
C2_Witness ==
    /\ op = "append_data"
    /\ ret[1] > 0
    /\ Len(heap) > ret[1]

\* the little-endian reading of the POINTER_SIZE bytes of h that follow
\* offset o, when it is below 2^16, and 2^16 otherwise
LengthFieldAt(h, o) ==
    IF \A k \in 3..POINTER_SIZE : h[o + k] = 0
    THEN h[o + 1] + ByteMod * h[o + 2]
    ELSE WordMod

\* C3 (external-string indirection): every slot an encode wrote holds the
\* offset of a heap record made of the POINTER_SIZE-byte little-endian
\* length L of the string followed by its L bytes, and decoding the slot
\* against the heap as it is now yields exactly the string encoded into it.
C3_ExternalRoundTrip ==
    \A i \in 1..Len(slots) :
        LET s == StringOf(slots[i])
            slot == BytesOf(slots[i])
            o == slot[1] + ByteMod * slot[2]
            r == DBExternalString_read_from_buffer(<<>>, slot, heap,
                                                   overflow_checks)
        IN  /\ \A k \in 3..POINTER_SIZE : slot[k] = 0
            /\ o + POINTER_SIZE + Len(s) <= Len(heap)
            /\ LengthFieldAt(heap, o) = Len(s)
            /\ SubSeq(heap, o + POINTER_SIZE + 1, o + POINTER_SIZE + Len(s)) = s
            /\ r.status = "ok"
            /\ r.self = s

\* a string longer than 255 bytes was encoded, then an empty one into the
\* same heap
C3_Witness ==
    /\ Len(slots) >= 2
    /\ Len(StringOf(slots[1])) > ByteMod - 1
    /\ Len(StringOf(slots[2])) = 0

\* offset + len > n, as numbers
Exceeds(offset, len, n) ==
    \/ AddOverflows(offset, len)
    \/ ~UFits(WrappingAdd(offset, len))
    \/ UToNat(WrappingAdd(offset, len)) > n

\* whether the slot's offset, or the length field of the record at that
\* offset, points past the end of heap h
PointsPastEnd(slot, h) ==
    LET o == LittleEndianValue(slot, POINTER_SIZE)
    IN  \/ Exceeds(o, NatToU64(POINTER_SIZE), Len(h))
        \/ Exceeds(NatToU64(UToNat(o) + POINTER_SIZE),
                   LittleEndianValue(SubSeq(h, UToNat(o) + 1, UToNat(o) + POINTER_SIZE),
                                     POINTER_SIZE),
                   Len(h))

\* C8 (get_slice bounds): get_slice(offset, len) fails exactly when
\* offset + len exceeds the heap's length and otherwise returns the bytes
\* offset..offset+len; decoding an external-string slot fails exactly when
\* the slot's offset or the record's length field points past the end of
\* the heap, and a failed call leaves the value and the heap as they were.
C8_GetSliceBounds ==
    [][/\ op' = "get_slice" =>
            LET offset == ret'[1]
                len == ret'[2]
            IN  /\ status' = "panic" <=> Exceeds(offset, len, Len(heap))
                /\ status' = "ok" <=> ~Exceeds(offset, len, Len(heap))
                /\ status' = "ok" =>
                       ret'[3] = SubSeq(heap, UToNat(offset) + 1,
                                        UToNat(offset) + UToNat(len))
                /\ heap' = heap
       /\ (op' = "read_from_buffer" /\ Len(buf') = POINTER_SIZE) =>
            /\ status' = "panic" <=> PointsPastEnd(buf', heap)
            /\ status' = "ok" <=> ~PointsPastEnd(buf', heap)
            /\ status' = "panic" => out' = ExternalString(<<>>)
            /\ heap' = heap]_vars

\* a decode failed on a slot whose offset lies inside the heap: the length
\* field of the record points past the end
C8_Witness ==
    /\ op = "read_from_buffer"
    /\ status = "panic"
    /\ Len(buf) = POINTER_SIZE
    /\ ~Exceeds(LittleEndianValue(buf, POINTER_SIZE), NatToU64(POINTER_SIZE), Len(heap))

(***************************************************************************)
(* The fixed-width and inline codecs of db_value.rs.  Each write returns   *)
(* how it ended and the slice as it left it, each read how it ended and    *)
(* the value as it left it.                                                *)
(***************************************************************************)
UInt64(x) == <<"DBUInt64", x>>
UInt32(x) == <<"DBUInt32", x>>
Boolean(p) == <<"DBBoolean", p>>
InlineString(s) == <<"DBInlineString", s>>
LibUInt64(x) == <<"lib::DBUInt64", x>>
NoValue == <<"none", <<>>>>

DBUInt64_size(self) == 8

DBUInt64_read_from_buffer(self, b) ==
    LET r == LittleEndian_read(b, 8)
    IN  [status |-> r.status, self |-> IF r.status = "ok" THEN r.v ELSE self]

DBUInt64_write_to_buffer(self, b) == LittleEndian_write(b, self, 8)

DBUInt32_size(self) == 4

DBUInt32_read_from_buffer(self, b) ==
    LET r == LittleEndian_read(b, 4)
    IN  [status |-> r.status, self |-> IF r.status = "ok" THEN r.v ELSE self]

DBUInt32_write_to_buffer(self, b) == LittleEndian_write(b, self, 4)

DBBoolean_size(self) == 1

DBBoolean_read_from_buffer_nonzero(self, b) ==
    IF Len(b) = 0 THEN [status |-> "panic", self |-> self]
    ELSE [status |-> "ok", self |-> (b[1] # 0)]

\* self.0 = buf[0] == 1
DBBoolean_read_from_buffer(self, b) ==
    IF Len(b) = 0 THEN [status |-> "panic", self |-> self]
    ELSE [status |-> "ok", self |-> (b[1] = 1)]

\* buf[0] = if self.0 { 1 } else { 0 }
DBBoolean_write_to_buffer(self, b) ==
    IF Len(b) = 0 THEN [status |-> "panic", buf |-> b]
    ELSE [status |-> "ok", buf |-> [b EXCEPT ![1] = IF self THEN 1 ELSE 0]]

\* DBInlineString::size: 1 + self.0.len()
DBInlineString_size(self) == 1 + Len(self)

DBInlineString_read_from_buffer_short(self, b) ==
    IF Len(b) = 0 \/ b[1] + 1 > Len(b)
    THEN [status |-> "panic", self |-> self]
    ELSE [status |-> "ok", self |-> from_utf8_lossy(SubSeq(b, 2, b[1]))]

\* DBInlineString::read_from_buffer: buf[0] and buf[1..size+1] are checked
\* indexings, so a slice that is empty or shorter than size + 1 panics
DBInlineString_read_from_buffer(self, b) ==
    IF Len(b) = 0 THEN [status |-> "panic", self |-> self]
    ELSE LET size == b[1]
         IN  IF size + 1 > Len(b) THEN [status |-> "panic", self |-> self]
             ELSE [status |-> "ok",
                   self |-> from_utf8_lossy(SubSeq(b, 2, size + 1))]

\* DBInlineString::write_to_buffer.  split_at_mut(1) panics on an empty
\* slice.  The length byte is data_size as u8, the length modulo 256.
\* ptr::copy then writes data_size bytes from the second byte of the slice
\* on, whatever the slice's length: `a` is the memory that follows the
\* slice.  A copy that runs past the slice is undefined behaviour, which
\* either overwrites what follows the slice or faults.
DBInlineString_write_to_buffer(self, b, a) ==
    IF Len(b) < 1 THEN { [status |-> "panic", buf |-> b, adj |-> a] }
    ELSE LET data_size == Len(self)
             mem == b \o a
             copied == [k \in 1..Len(mem) |->
                           IF k = 1 THEN data_size % ByteMod
                           ELSE IF k - 1 <= data_size THEN self[k - 1]
                           ELSE mem[k]]
             done == [status |-> "ok",
                      buf |-> SubSeq(copied, 1, Len(b)),
                      adj |-> SubSeq(copied, Len(b) + 1, Len(mem))]
         IN  IF data_size <= Len(b) - 1 THEN { done }
             ELSE { done, [done EXCEPT !.status = "crash"] }

(***************************************************************************)
(* DBUInt64 of lib.rs: both directions match the slice against a pattern   *)
(* of exactly eight bytes and return Err otherwise.                        *)
(***************************************************************************)
Lib_DBUInt64_size(self) == 8

Lib_DBUInt64_read_from_buffer(self, b) ==
    IF Len(b) = 8
    THEN [status |-> "ok",
          self |-> <<b[7] + ByteMod * b[8], b[5] + ByteMod * b[6],
                     b[3] + ByteMod * b[4], b[1] + ByteMod * b[2]>>]
    ELSE [status |-> "err", self |-> self]

Lib_DBUInt64_write_to_buffer(self, b) ==
    IF Len(b) = 8
    THEN [status |-> "ok", buf |-> [k \in 1..8 |-> ByteOf(self, k - 1)]]
    ELSE [status |-> "err", buf |-> b]

(***************************************************************************)
(* The DbValue trait: the call is dispatched on the value's type.          *)
(***************************************************************************)
\* X::new()
New(codec) ==
    CASE codec = "DBUInt64" -> UInt64(NatToU64(0))
      [] codec = "DBUInt32" -> UInt32(NatToU(0, 2))
      [] codec = "DBBoolean" -> Boolean(FALSE)
      [] codec = "DBInlineString" -> InlineString(<<>>)
      [] codec = "DBExternalString" -> ExternalString(<<>>)
      [] codec = "lib::DBUInt64" -> LibUInt64(NatToU64(0))

size(value) ==
    CASE TypeOf(value) = "DBUInt64" -> DBUInt64_size(Inner(value))
      [] TypeOf(value) = "DBUInt32" -> DBUInt32_size(Inner(value))
      [] TypeOf(value) = "DBBoolean" -> DBBoolean_size(Inner(value))
      [] TypeOf(value) = "DBInlineString" -> DBInlineString_size(Inner(value))
      [] TypeOf(value) = "DBExternalString" -> DBExternalString_size(Inner(value))
      [] TypeOf(value) = "lib::DBUInt64" -> Lib_DBUInt64_size(Inner(value))

\* the outcomes of value.write_to_buffer(&mut b, &mut heap_unused), `a`
\* being the memory after the slice
write_to_buffer(value, b, a) ==
    LET within(w) == { [status |-> w.status, buf |-> w.buf, adj |-> a] }
    IN  CASE TypeOf(value) = "DBUInt64" -> within(DBUInt64_write_to_buffer(Inner(value), b))
          [] TypeOf(value) = "DBUInt32" -> within(DBUInt32_write_to_buffer(Inner(value), b))
          [] TypeOf(value) = "DBBoolean" -> within(DBBoolean_write_to_buffer(Inner(value), b))
          [] TypeOf(value) = "DBInlineString" -> DBInlineString_write_to_buffer(Inner(value), b, a)
          [] TypeOf(value) = "lib::DBUInt64" -> within(Lib_DBUInt64_write_to_buffer(Inner(value), b))

\* value.read_from_buffer(&b, &heap_unused)
read_from_buffer(value, b) ==
    CASE TypeOf(value) = "DBUInt64" -> DBUInt64_read_from_buffer(Inner(value), b)
      [] TypeOf(value) = "DBUInt32" -> DBUInt32_read_from_buffer(Inner(value), b)
      [] TypeOf(value) = "DBBoolean" -> DBBoolean_read_from_buffer(Inner(value), b)
      [] TypeOf(value) = "DBInlineString" -> DBInlineString_read_from_buffer(Inner(value), b)
      [] TypeOf(value) = "lib::DBUInt64" -> Lib_DBUInt64_read_from_buffer(Inner(value), b)

(***************************************************************************)
(* The codecs under test: a value is encoded into a fresh zeroed slice of  *)
(* some length, and a fresh value is decoded from a prefix of the slice.   *)
(***************************************************************************)
U32Max == [i \in 1..2 |-> WordMod - 1]

\* tests::uint64_serialize and uint32_serialize: 0, the maximum, 4538756723
\* and 4538756
U64Values == { NatToU64(0), U64Max, <<0, 1, 3719, 61043>> }
U32Values == { NatToU(0, 2), U32Max, <<69, 16772>> }

\* tests::inline_string_serialize, with a string of exactly 255 bytes and
\* one that is longer
InlineStrings ==
    { <<>>, <<32>>, <<97, 226, 136, 158, 240, 159, 140, 174>>,
      Rep(97, ByteMod - 1), Rep(97, LongLen) }

\* slices that no encode of this run produced
RawSlices ==
    { <<b>> : b \in Byte }
        \cup { <<3, 97, 255, 98>>, <<2, 97>>, <<1, 0, 0, 0, 0, 0, 0, 0, 9>> }

FixedCodecs == { "DBUInt64", "DBUInt32", "DBBoolean", "DBInlineString", "lib::DBUInt64" }

\* slice lengths around the size of the value
LensAround(n) == { k \in { 0, n - 1, n, n + Slack } : k >= 0 }

InitCodec ==
    /\ overflow_checks \in BOOLEAN
    /\ heap = <<>>
    /\ log = <<>>
    /\ slots = <<>>
    /\ buf = <<>>
    /\ adj = Zeros(AdjLen)
    /\ val = NoValue
    /\ out = NoValue
    /\ wrote = "none"
    /\ op = "new"
    /\ status = "ok"
    /\ ret = <<>>
    /\ schema = <<>>
    /\ row_len = 0

\* let mut buf = [0u8; n]; value.write_to_buffer(&mut buf, &mut heap_unused)
Write(value, n) ==
    /\ \E w \in write_to_buffer(value, Zeros(n), Zeros(AdjLen)) :
          /\ buf' = w.buf
          /\ adj' = w.adj
          /\ status' = w.status
          /\ wrote' = w.status
    /\ val' = value
    /\ out' = New(TypeOf(value))
    /\ op' = "write_to_buffer"
    /\ ret' = <<n>>
    /\ UNCHANGED <<overflow_checks, heap, log, slots, schema, row_len>>

\* let mut new_val = X::new(); new_val.read_from_buffer(&buf[..n], &heap_unused)
Read(codec, n) ==
    /\ op # "new"
    /\ LET r == read_from_buffer(New(codec), SubSeq(buf, 1, n))
       IN  /\ status' = r.status
           /\ out' = <<codec, r.self>>
    /\ op' = "read_from_buffer"
    /\ ret' = <<n>>
    /\ UNCHANGED <<overflow_checks, heap, log, slots, buf, adj, val, wrote,
                   schema, row_len>>

\* the caller hands over a slice that holds arbitrary bytes
Fill(raw) ==
    /\ buf' = raw
    /\ adj' = Zeros(AdjLen)
    /\ val' = NoValue
    /\ out' = NoValue
    /\ wrote' = "none"
    /\ op' = "fill"
    /\ status' = "ok"
    /\ ret' = <<>>
    /\ UNCHANGED <<overflow_checks, heap, log, slots, schema, row_len>>

NextCodec ==
    \/ \E x \in U64Values, n \in LensAround(8) : Write(UInt64(x), n)
    \/ \E x \in U32Values, n \in LensAround(4) : Write(UInt32(x), n)
    \/ \E p \in BOOLEAN, n \in LensAround(1) : Write(Boolean(p), n)
    \/ \E s \in InlineStrings : \E n \in LensAround(1 + Len(s)) : Write(InlineString(s), n)
    \/ \E x \in U64Values, n \in LensAround(8) : Write(LibUInt64(x), n)
    \/ \E codec \in FixedCodecs :
          \E n \in LensAround(size(New(codec))) \cup { Len(buf) } :
              n <= Len(buf) /\ Read(codec, n)
    \/ \E raw \in RawSlices : Fill(raw)

SpecCodec == InitCodec /\ [][NextCodec]_vars

(***************************************************************************)
(* lib.rs: DbType, FieldSpec, TypeSpec, Table.  A DbType is kept as the    *)
(* pair of its variant and, for Varchar, its declared length; a schema as  *)
(* the sequence of the db_type of its fields, in declaration order.        *)
(***************************************************************************)
MaxFields == 2       \* fields of an enumerated schema

Varchar(len) == <<"Varchar", len>>
Plain(variant) == <<variant, 0>>

\* DbType::size, mistaken at the inline boundary
DbType_size_inclusive(db_type) ==
    LET variant == db_type[1]
        len == db_type[2]
    IN  CASE variant = "Boolean" -> 1
          [] variant \in { "Int32", "UInt32" } -> 4
          [] variant \in { "Int64", "UInt64" } -> 8
          [] variant = "Varchar" /\ len <= ByteMod -> 1 + len
          [] variant = "Varchar" -> 2 + POINTER_SIZE
          [] variant = "Blob" -> 2 + POINTER_SIZE

\* DbType::size
DbType_size(db_type) ==
    LET variant == db_type[1]
        len == db_type[2]
    IN  CASE variant = "Boolean" -> 1
          [] variant = "Int32" -> 4
          [] variant = "UInt32" -> 4
          [] variant = "Int64" -> 8
          [] variant = "UInt64" -> 8
          [] variant = "Varchar" /\ len < ByteMod -> 1 + len
          [] variant = "Varchar" -> 2 + POINTER_SIZE
          [] variant = "Blob" -> 2 + POINTER_SIZE

\* TypeSpec::size and FieldSpec::size hand the call down to the DbType
FieldSpec_size(db_type) == DbType_size(db_type)

\* Table::row_length: self.schema.iter().fold(0, |acc, f| acc + f.size())
RECURSIVE fold(_, _, _)
fold(fields, i, acc) ==
    IF i > Len(fields) THEN acc
    ELSE fold(fields, i + 1, acc + FieldSpec_size(fields[i]))

row_length(fields) == fold(fields, 1, 0)

DbTypes ==
    { Plain("Boolean"), Plain("Int32"), Plain("UInt32"), Plain("Int64"),
      Plain("UInt64"), Plain("Blob"),
      Varchar(0), Varchar(30), Varchar(ByteMod - 1), Varchar(ByteMod), Varchar(1000) }

\* the schemas of tests::fixed_row_length and tests::variable_row_length
TestSchemas ==
    { <<Plain("UInt64")>>,
      <<Plain("UInt64"), Plain("UInt32"), Plain("Boolean"), Varchar(1000), Plain("Blob")>>,
      <<Varchar(30)>>,
      <<Varchar(30), Varchar(ByteMod - 1)>> }

RECURSIVE SeqsUpTo(_, _)
SeqsUpTo(S, n) ==
    IF n = 0 THEN { <<>> }
    ELSE LET shorter == SeqsUpTo(S, n - 1)
         IN  shorter \cup { Append(q, x) : q \in shorter, x \in S }

Schemas == SeqsUpTo(DbTypes, MaxFields) \cup TestSchemas

InitTable ==
    /\ overflow_checks \in BOOLEAN
    /\ heap = <<>>
    /\ log = <<>>
    /\ slots = <<>>
    /\ buf = <<>>
    /\ adj = Zeros(AdjLen)
    /\ val = NoValue
    /\ out = NoValue
    /\ wrote = "none"
    /\ op = "new"
    /\ status = "ok"
    /\ ret = <<>>
    /\ schema = <<>>
    /\ row_len = 0

\* Table::new(name, Rc::new(fields)): the table is made once, and nothing
\* changes its schema afterwards
TableNew(fields) ==
    /\ op = "new"
    /\ schema' = fields
    /\ row_len' = 0
    /\ op' = "Table::new"
    /\ UNCHANGED <<overflow_checks, heap, log, slots, buf, adj, val, out, wrote,
                   status, ret>>

\* table.row_length()
RowLength ==
    /\ op \in { "Table::new", "row_length" }
    /\ row_len' = row_length(schema)
    /\ op' = "row_length"
    /\ UNCHANGED <<overflow_checks, heap, log, slots, buf, adj, val, out, wrote,
                   status, ret, schema>>

NextTable ==
    \/ \E fields \in Schemas : TableNew(fields)
    \/ RowLength

SpecTable == InitTable /\ [][NextTable]_vars

(***************************************************************************)
(* Claims about the codecs (SpecCodec).                                    *)
(***************************************************************************)

\* C4 (round trip): when a DBUInt64, DBUInt32, DBBoolean or DBInlineString
\* (of at most 255 bytes) was encoded without failure into a slice that
\* holds the encoded value, decoding that slice into a fresh value of the
\* same type succeeds and yields a value equal to the encoded one.
C4_RoundTrip ==
    ( /\ op = "read_from_buffer"
      /\ wrote = "ok"
      /\ TypeOf(out) = TypeOf(val)
      /\ ret[1] = Len(buf)
      /\ Len(buf) >= size(val)
      /\ TypeOf(val) = "DBInlineString" => Len(Inner(val)) <= ByteMod - 1 )
        => status = "ok" /\ Inner(out) = Inner(val)

\* an inline string of exactly 255 bytes was encoded and decoded again
C4_Witness ==
    /\ op = "read_from_buffer"
    /\ wrote = "ok"
    /\ TypeOf(val) = "DBInlineString"
    /\ TypeOf(out) = "DBInlineString"
    /\ Len(Inner(val)) = ByteMod - 1
    /\ ret[1] = Len(buf)
    /\ Len(buf) = size(val)
    /\ status = "ok"

\* a call that ended in a failure the caller sees: an Err it was returned,
\* or a panic
Failed(st) == st \in { "err", "panic" }

\* C5 (inline length overflow): encoding an inline string of more than
\* 255 bytes fails, and leaves no length byte (the length modulo 256) nor
\* anything else in the slot.
C5_InlineOverflowFails ==
    ( /\ op = "write_to_buffer"
      /\ TypeOf(val) = "DBInlineString"
      /\ Len(Inner(val)) > ByteMod - 1 )
        => /\ Failed(status)
           /\ buf = Zeros(Len(buf))

\* C6 (encode into a slice of the wrong length): an encode into a slice
\* whose length is not the value's size() fails, and writes nothing to the
\* memory after the slice.
C6_EncodeWrongLengthFails ==
    (op = "write_to_buffer" /\ Len(buf) # size(val))
        => /\ Failed(status)
           /\ adj = Zeros(AdjLen)

\* C7 (decode from a slice of the wrong length): a decode from a slice
\* whose length is not the value's size() fails and leaves the value as
\* it was.
C7_DecodeWrongLengthFails ==
    (op = "read_from_buffer" /\ ret[1] # size(New(TypeOf(out))))
        => /\ Failed(status)
           /\ out = New(TypeOf(out))

\* C10 (size is the in-row footprint): the size() of the value an encode
\* was called on is the size() of any other value of its type, and for an
\* external string it is the POINTER_SIZE bytes the encode writes to the
\* row slot.
C10_SizeIsFootprint ==
    op = "write_to_buffer"
        => /\ size(val) = size(New(TypeOf(val)))
           /\ TypeOf(val) = "DBExternalString" => size(val) = POINTER_SIZE

(***************************************************************************)
(* Claims about the table (SpecTable).                                     *)
(***************************************************************************)
\* the footprint of a field as the claim gives it
Footprint(db_type) ==
    LET variant == db_type[1]
        len == db_type[2]
    IN  IF variant = "Boolean" THEN 1
        ELSE IF variant \in { "Int32", "UInt32" } THEN 4
        ELSE IF variant \in { "Int64", "UInt64" } THEN 8
        ELSE IF variant = "Varchar" /\ len < 256 THEN 1 + len
        ELSE 2 + POINTER_SIZE

RECURSIVE FootprintSum(_, _)
FootprintSum(fields, n) ==
    IF n = 0 THEN 0 ELSE FootprintSum(fields, n - 1) + Footprint(fields[n])

\* C9 (row length): what Table::row_length() returns is the sum of the
\* footprints of the schema's fields: 8 for UInt64 alone, 287 for
\* Varchar(30) + Varchar(255), 17 + 2 * POINTER_SIZE for
\* UInt64 + UInt32 + Boolean + Varchar(1000) + Blob.
C9_RowLength ==
    op = "row_length" =>
        /\ row_len = FootprintSum(schema, Len(schema))
        /\ schema = <<Plain("UInt64")>> => row_len = 8
        /\ schema = <<Varchar(30), Varchar(255)>> => row_len = 287
        /\ schema = <<Plain("UInt64"), Plain("UInt32"), Plain("Boolean"),
                      Varchar(1000), Plain("Blob")>>
              => row_len = 17 + 2 * POINTER_SIZE

\* row_length() was called on the five-field schema of the tests
C9_Witness ==
    /\ op = "row_length"
    /\ schema = <<Plain("UInt64"), Plain("UInt32"), Plain("Boolean"),
                  Varchar(1000), Plain("Blob")>>
    /\ row_len = 33

(***************************************************************************)
(* Claims about the boolean codec (SpecCodec).                             *)
(***************************************************************************)

\* C11 (boolean layout): a DBBoolean decoded from a slot yields true
\* exactly when the first byte of the slot is 1, and false for 0 and for
\* every byte 2..255; an encode writes the byte 1 for true and 0 for false
\* and touches nothing else of the slot; neither call touches the heap.
C11_BooleanLayout ==
    /\ (op = "read_from_buffer" /\ TypeOf(out) = "DBBoolean" /\ ret[1] >= 1)
          => /\ status = "ok"
             /\ Inner(out) <=> buf[1] = 1
             /\ heap = <<>>
    /\ (op = "write_to_buffer" /\ TypeOf(val) = "DBBoolean" /\ Len(buf) >= 1)
          => /\ status = "ok"
             /\ buf[1] = (IF Inner(val) THEN 1 ELSE 0)
             /\ buf[1] \in { 0, 1 }
             /\ \A k \in 2..Len(buf) : buf[k] = 0
             /\ adj = Zeros(AdjLen)
             /\ heap = <<>>

\* a DBBoolean was decoded from a slot whose byte is neither 0 nor 1
C11_Witness ==
    /\ op = "read_from_buffer"
    /\ TypeOf(out) = "DBBoolean"
    /\ buf = <<ByteMod - 1>>
    /\ ret[1] = 1
    /\ status = "ok"
    /\ Inner(out) = FALSE

=============================================================================
